---- MODULE Spec2Model ----
(***************************************************************************)
(* Model of the pi calculators pi_chudnovsky.py (integer-only) and         *)
(* pi_chudnovsky_gmpy2.py (gmpy2-backed): the digit-specification parser,  *)
(* the command-line front end, the Chudnovsky binary splitter and the      *)
(* digit assembler.                                                        *)
(*                                                                         *)
(* Python integers are unbounded.  They are modelled as records            *)
(* [s |-> sign, m |-> magnitude], the magnitude being a little-endian      *)
(* sequence of limbs in base Base without leading zero limbs.              *)
(***************************************************************************)
EXTENDS Integers, Sequences, FiniteSets, Bags, TLC

Base == 1000

Max(x, y) == IF x >= y THEN x ELSE y
Min(x, y) == IF x <= y THEN x ELSE y

(***************************************************************************)
(* Evaluation.  An operator argument is an expression, evaluated wherever   *)
(* the operator's body uses it.  Apply(F, v) evaluates v once and hands F   *)
(* the value; the arithmetic below uses it for every number it reads more   *)
(* than once.                                                               *)
(***************************************************************************)
Apply(F(_), v) == CHOOSE z \in {F(u) : u \in {v}} : TRUE
Apply2(F(_, _), v, w) == CHOOSE z \in {F(t, u) : t \in {v}, u \in {w}} : TRUE

\* the sequence with the elements of the function f on 1..n
Mat(f) == f \o << >>

SetMax(S) == Apply(LAMBDA T : CHOOSE i \in T : \A j \in T : j <= i, S)

(***************************************************************************)
(* Natural numbers as limb sequences.                                       *)
(***************************************************************************)
\* x without its leading zero limbs
NNorm(x0) ==
    Apply(LAMBDA x :
            IF Len(x) = 0 THEN x
            ELSE IF x[Len(x)] # 0 THEN x
            ELSE SubSeq(x, 1, CHOOSE n \in 0..(Len(x) - 1) :
                                  /\ n = 0 \/ x[n] # 0
                                  /\ \A j \in (n + 1)..(Len(x) - 1) : x[j] = 0),
          x0)

RECURSIVE NFromInt(_)
NFromInt(n) == IF n = 0 THEN << >> ELSE <<n % Base>> \o NFromInt(n \div Base)

Limb(x, i) == IF i >= 1 /\ i <= Len(x) THEN x[i] ELSE 0

\* x + y.  The carry into limb i is decided by the limbs below it: it is 1
\* when some limb sum below reaches Base and every limb sum between is Base - 1.
NAdd(x0, y0) ==
    Apply2(LAMBDA x, y :
             LET Sum(i) == Limb(x, i) + Limb(y, i)
                 Cy(i)  == IF i = 1 THEN 0
                           ELSE IF Sum(i - 1) # Base - 1
                           THEN (IF Sum(i - 1) >= Base THEN 1 ELSE 0)
                           ELSE IF \E j \in 1..(i - 1) :
                                      /\ Sum(j) >= Base
                                      /\ \A k \in (j + 1)..(i - 1) : Sum(k) = Base - 1
                           THEN 1 ELSE 0
             IN  IF Len(x) = 0 THEN y
                 ELSE IF Len(y) = 0 THEN x
                 ELSE NNorm(Mat([i \in 1..(Max(Len(x), Len(y)) + 1) |->
                                   (Sum(i) + Cy(i)) % Base])),
           x0, y0)

\* x - y for x >= y, the borrows decided like the carries of NAdd
NSub(x0, y0) ==
    Apply2(LAMBDA x, y :
             LET Bw(i) == IF i = 1 THEN 0
                          ELSE IF x[i - 1] # Limb(y, i - 1)
                          THEN (IF x[i - 1] < Limb(y, i - 1) THEN 1 ELSE 0)
                          ELSE IF \E j \in 1..(i - 1) :
                                     /\ x[j] < Limb(y, j)
                                     /\ \A k \in (j + 1)..(i - 1) : x[k] = Limb(y, k)
                          THEN 1 ELSE 0
             IN  IF Len(y) = 0 THEN x
                 ELSE NNorm(Mat([i \in 1..Len(x) |->
                                   (x[i] - Limb(y, i) - Bw(i) + Base) % Base])),
           x0, y0)

\* -1, 0, 1 as x < y, x = y, x > y (x and y without leading zero limbs)
NCmp(x0, y0) ==
    Apply2(LAMBDA x, y :
             IF Len(x) < Len(y) THEN -1
             ELSE IF Len(x) > Len(y) THEN 1
             ELSE IF Len(x) = 0 THEN 0
             ELSE IF x[Len(x)] < y[Len(x)] THEN -1
             ELSE IF x[Len(x)] > y[Len(x)] THEN 1
             ELSE IF \A i \in 1..Len(x) : x[i] = y[i] THEN 0
             ELSE IF x[SetMax({i \in 1..Len(x) : x[i] # y[i]})]
                       < y[SetMax({i \in 1..Len(x) : x[i] # y[i]})] THEN -1
             ELSE 1,
           x0, y0)

\* x * k for 0 <= k < Base
NMulSmall(x0, k) ==
    Apply(LAMBDA x :
            IF Len(x) = 0 \/ k = 0 THEN << >>
            ELSE NAdd(Mat([i \in 1..Len(x) |-> (x[i] * k) % Base]),
                      Mat([i \in 1..(Len(x) + 1) |-> (Limb(x, i - 1) * k) \div Base])),
          x0)

\* the sum of f[i] over the domain of f, f[i] >= 0: the cardinality of the
\* bag with f[i] + 1 copies of i, less one copy of each
FcnSum(f) == BagCardinality([i \in DOMAIN f |-> f[i] + 1]) - Cardinality(DOMAIN f)

\* the number of the column sums v: the sum of v[k] * Base^(k - 1)
NFromColumns(v0) ==
    Apply(LAMBDA v :
            NAdd(NAdd(Mat([k \in 1..Len(v) |-> v[k] % Base]),
                      Mat([k \in 1..(Len(v) + 1) |-> (Limb(v, k - 1) \div Base) % Base])),
                 Mat([k \in 1..(Len(v) + 2) |-> Limb(v, k - 2) \div (Base * Base)])),
          v0)

\* x * y: column k collects the products x[i] * y[k + 1 - i]
NMul(x0, y0) ==
    Apply2(LAMBDA x, y :
             IF Len(x) = 0 \/ Len(y) = 0 THEN << >>
             ELSE NFromColumns(
                      Mat([k \in 1..(Len(x) + Len(y) - 1) |->
                             FcnSum([i \in Max(1, k + 1 - Len(y))..Min(k, Len(x)) |->
                                       x[i] * y[k + 1 - i]])])),
           x0, y0)

\* x \div 2
NHalf(x0) ==
    Apply(LAMBDA x :
            NNorm(Mat([i \in 1..Len(x) |-> (x[i] + Base * (Limb(x, i + 1) % 2)) \div 2])),
          x0)

\* 10^k
NPow10(k) ==
    Mat([i \in 1..(k \div 3 + 1) |->
           IF i <= k \div 3 THEN 0
           ELSE IF k % 3 = 0 THEN 1 ELSE IF k % 3 = 1 THEN 10 ELSE 100])

\* one step of the long division by y > 0: the limb joins the remainder st.r
\* below it, 0 <= st.r < y, and the quotient limb found joins st.q.  The
\* quotient limb estimated from the leading limbs is exact or one too large.
DivStep(limb, st, y) ==
    Apply(LAMBDA r :
            LET n   == Len(y)
                y2  == Limb(y, n) * Base + Limb(y, n - 1)
                r3  == (Limb(r, n + 1) * Base + Limb(r, n)) * Base + Limb(r, n - 1)
                est == Min(r3 \div y2, Base - 1)
            IN  Apply(LAMBDA p :
                        IF NCmp(p, r) <= 0
                        THEN [q |-> <<est>> \o st.q, r |-> NSub(r, p)]
                        ELSE [q |-> <<est - 1>> \o st.q, r |-> NSub(NAdd(r, y), p)],
                      NMulSmall(y, est)),
          NNorm(<<limb>> \o st.r))

\* q = x \div y and r = x % y for y > 0: the long division, the limbs of x
\* taken from the most significant down, a range of limbs at a time
NDivMod(x0, y0) ==
    Apply2(LAMBDA x, y :
             LET div[a \in Nat \X Nat \X [q : Seq(Nat), r : Seq(Nat)]] ==
                     IF a[1] = a[2] THEN DivStep(x[a[1]], a[3], y)
                     ELSE div[<<a[1], (a[1] + a[2]) \div 2,
                                div[<<(a[1] + a[2]) \div 2 + 1, a[2], a[3]>>]>>]
             IN  IF NCmp(x, y) < 0 THEN [q |-> << >>, r |-> x]
                 ELSE Apply(LAMBDA dm : [q |-> NNorm(dm.q), r |-> dm.r],
                            div[<<1, Len(x), [q |-> << >>, r |-> << >>]>>]),
           x0, y0)

(***************************************************************************)
(* Signed integers.                                                        *)
(***************************************************************************)
ZZero == [s |-> 0, m |-> << >>]
ZMake(s, m0) == Apply(LAMBDA m : IF Len(m) = 0 THEN ZZero ELSE [s |-> s, m |-> m], m0)
ZInt(n) == IF n < 0 THEN ZMake(-1, NFromInt(-n)) ELSE ZMake(1, NFromInt(n))
ZNeg(x0) == Apply(LAMBDA x : [s |-> -x.s, m |-> x.m], x0)
ZMul(x0, y0) == Apply2(LAMBDA x, y : ZMake(x.s * y.s, NMul(x.m, y.m)), x0, y0)
ZAdd(x0, y0) ==
    Apply2(LAMBDA x, y :
             IF x.s = 0 THEN y
             ELSE IF y.s = 0 THEN x
             ELSE IF x.s = y.s THEN ZMake(x.s, NAdd(x.m, y.m))
             ELSE IF NCmp(x.m, y.m) = 0 THEN ZZero
             ELSE IF NCmp(x.m, y.m) > 0 THEN ZMake(x.s, NSub(x.m, y.m))
             ELSE ZMake(y.s, NSub(y.m, x.m)),
           x0, y0)
ZPow10(k) == ZMake(1, NPow10(k))

\* Python's x // y: the quotient rounded towards minus infinity (y # 0)
ZFloorDiv(x0, y0) ==
    Apply2(LAMBDA x, y :
             Apply(LAMBDA dm :
                     IF x.s * y.s >= 0 THEN ZMake(x.s * y.s, dm.q)
                     ELSE IF Len(dm.r) = 0 THEN ZMake(-1, dm.q)
                     ELSE ZMake(-1, NAdd(dm.q, <<1>>)),
                   NDivMod(x.m, y.m)),
           x0, y0)

\* math.isqrt(n), n >= 0: the largest s with s * s <= n.  Newton's iteration
\* x -> (x + n \div x) \div 2 descends to it from any start above the root;
\* the start is taken from the two or three leading limbs of n.
SmallRoot(t) == CHOOSE k \in 0..31622 : k * k <= t /\ (k + 1) * (k + 1) > t

RECURSIVE IsqrtFrom(_, _)
IsqrtFrom(n, x) ==
    Apply(LAMBDA y : IF NCmp(y, x) >= 0 THEN x ELSE IsqrtFrom(n, y),
          NHalf(NAdd(x, NDivMod(n, x).q)))

IsqrtStart(n) ==
    LET len == Len(n)
        Above(t, k) == Mat([i \in 1..k |-> 0]) \o NFromInt(SmallRoot(t) + 1)
    IN  IF len % 2 = 0
        THEN Above(n[len] * Base + n[len - 1], (len - 2) \div 2)
        ELSE IF len = 1
        THEN Above(n[1], 0)
        ELSE Above((n[len] * Base + n[len - 1]) * Base + n[len - 2], (len - 3) \div 2)

isqrt(n0) ==
    Apply(LAMBDA n :
            IF n.s = 0 THEN ZZero
            ELSE ZMake(1, Apply(LAMBDA start : IsqrtFrom(n.m, start), IsqrtStart(n.m))),
          n0)

(***************************************************************************)
(* str(n): the decimal rendering, a sequence of one-character strings.     *)
(***************************************************************************)
DigitChar(k) == <<"0", "1", "2", "3", "4", "5", "6", "7", "8", "9">>[k + 1]

Limb3(v)  == <<DigitChar(v \div 100), DigitChar((v \div 10) % 10), DigitChar(v % 10)>>
LimbTop(v) ==
    IF v >= 100 THEN Limb3(v)
    ELSE IF v >= 10 THEN <<DigitChar(v \div 10), DigitChar(v % 10)>>
    ELSE <<DigitChar(v)>>

str(n0) ==
    Apply(LAMBDA n :
            IF n.s = 0 THEN <<"0">>
            ELSE (IF n.s < 0 THEN <<"-">> ELSE << >>)
                 \o LimbTop(n.m[Len(n.m)])
                 \o Mat([i \in 1..(3 * (Len(n.m) - 1)) |->
                           Limb3(n.m[Len(n.m) - 1 - ((i - 1) \div 3)])[((i - 1) % 3) + 1]]),
          n0)

\* s.rjust(width, fill)
rjust(s, width, fill) ==
    IF Len(s) >= width THEN s
    ELSE Mat([i \in 1..(width - Len(s)) |-> fill]) \o s

\* s[lo:hi] with 0 <= lo <= hi (Python slice, 0-based, clipped to the string)
Slice(s, lo, hi) == SubSeq(s, lo + 1, Min(hi, Len(s)))

(***************************************************************************)
(* binary_split(a, b): the triple (P, Q, T) of the range [a, b).           *)
(***************************************************************************)
C3Over24 == ZMake(1, <<0, 32, 860, 58, 939, 10>>)      \* 10939058860032000

LeafTriple(a) ==
    IF a = 0
    THEN [P |-> ZInt(1), Q |-> ZInt(1), T |-> ZInt(13591409)]
    ELSE LET k   == ZInt(a)
             v   == ZAdd(ZInt(13591409), ZMul(ZInt(545140134), k))
             val == IF a % 2 = 1 THEN ZNeg(v) ELSE v
         IN  Apply(LAMBDA P : [P |-> P,
                               Q |-> ZMul(ZMul(ZMul(k, k), k), C3Over24),
                               T |-> ZMul(val, P)],
                   ZMul(ZMul(ZInt(6 * a - 5), ZInt(2 * a - 1)), ZInt(6 * a - 1)))

\* the merge of T with the two products taken from the wrong side:
\* Q1 * T2 + P2 * T1
MergeTMirrored(P1, Q1, T1, P2, Q2, T2) == ZAdd(ZMul(Q1, T2), ZMul(P2, T1))

\* the merge of T with P2 in the place of P1: Q2 * T1 + P2 * T2
MergeTRightP(P1, Q1, T1, P2, Q2, T2) == ZAdd(ZMul(Q2, T1), ZMul(P2, T2))

MergeT(P1, Q1, T1, P2, Q2, T2) == ZAdd(ZMul(Q2, T1), ZMul(P1, T2))

Merge(l0, r0) ==
    Apply2(LAMBDA l, r : [P |-> ZMul(l.P, r.P),
                          Q |-> ZMul(l.Q, r.Q),
                          T |-> MergeT(l.P, l.Q, l.T, r.P, r.Q, r.T)],
           l0, r0)

\* a split point that peels one term off the left: m = a + 1
MidPeel(a, b) == a + 1

Mid(a, b) == (a + b) \div 2

RECURSIVE binary_split(_, _)
binary_split(a, b) ==
    IF b - a = 1 THEN LeafTriple(a)
    ELSE Apply(LAMBDA m : Merge(binary_split(a, m), binary_split(m, b)), Mid(a, b))

(***************************************************************************)
(* The last statements of compute_pi_digits: the rendering of the scaled   *)
(* integer, padded to digits + 1 characters and split.                     *)
(***************************************************************************)
Margin == 10

\* the fraction cut one character short: frac_part = s[1 : digits]
FormatPiShort(pi_scaled, digits) ==
    Apply(LAMBDA s0 :
            Apply(LAMBDA s : Slice(s, 0, 1) \o <<".">> \o Slice(s, 1, digits),
                  IF Len(s0) < digits + 1 THEN rjust(s0, digits + 1, "0") ELSE s0),
          str(pi_scaled))

FormatPi(pi_scaled, digits) ==
    Apply(LAMBDA s0 :
            Apply(LAMBDA s : Slice(s, 0, 1) \o <<".">> \o Slice(s, 1, 1 + digits),
                  IF Len(s0) < digits + 1 THEN rjust(s0, digits + 1, "0") ELSE s0),
          str(pi_scaled))

(***************************************************************************)
(* gmpy2 variant: mpfr numbers [s |-> sign, m |-> mantissa, e |-> exponent] *)
(* of value s * m * 2^e, the mantissa of exactly prec bits, every          *)
(* operation correctly rounded to nearest, ties to even (the default       *)
(* context of gmpy2).                                                      *)
(***************************************************************************)
RECURSIVE NPow2(_)
NPow2(k0) ==
    Apply(LAMBDA k :
            IF k < 30 THEN NFromInt(2 ^ k)
            ELSE Apply(LAMBDA h : IF k % 2 = 0 THEN NMul(h, h)
                                  ELSE NMulSmall(NMul(h, h), 2),
                       NPow2(k \div 2)),
          k0)

\* the number of bits of x > 0
BitLen(x0) ==
    Apply(LAMBDA x :
            LET top == x[Len(x)]
                bt  == CHOOSE b \in 1..10 : 2 ^ (b - 1) <= top /\ top < 2 ^ b
                f   == ((Len(x) - 1) * 99658) \div 10000
            IN  CHOOSE k \in (bt + f - 1)..(bt + f + 1) :
                    k >= 1 /\ NCmp(NPow2(k - 1), x) <= 0 /\ NCmp(x, NPow2(k)) < 0,
          x0)

\* q, r of N * 2^(-k) divided by D, and the divisor d used
ScaledDivMod(N, D, k) ==
    IF k < 0 THEN NDivMod(NMul(N, NPow2(-k)), D) @@ [d |-> D]
    ELSE Apply(LAMBDA D2 : NDivMod(N, D2) @@ [d |-> D2], NMul(D, NPow2(k)))

\* the quotient dm.q with remainder dm.r of the divisor dm.d, rounded to
\* nearest, ties to even, as a number of sign s and exponent e
RoundQ(s, dm, e, prec) ==
    Apply2(LAMBDA c, limit :
             Apply(LAMBDA m :
                     IF NCmp(m, limit) = 0
                     THEN [s |-> s, m |-> NPow2(prec - 1), e |-> e + 1]
                     ELSE [s |-> s, m |-> m, e |-> e],
                   IF c > 0 \/ (c = 0 /\ Limb(dm.q, 1) % 2 = 1)
                   THEN NAdd(dm.q, <<1>>) ELSE dm.q),
           NCmp(NMulSmall(dm.r, 2), dm.d), NPow2(prec))

\* s * (N / D) * 2^E rounded to prec bits, N > 0, D > 0
FRound(s, N0, D0, E, prec) ==
    Apply2(LAMBDA N, D :
             Apply(LAMBDA k :
                     Apply(LAMBDA dm :
                             IF NCmp(dm.q, NPow2(prec)) >= 0
                             THEN Apply(LAMBDA dm1 : RoundQ(s, dm1, k + 1 + E, prec),
                                        ScaledDivMod(N, D, k + 1))
                             ELSE RoundQ(s, dm, k + E, prec),
                           ScaledDivMod(N, D, k)),
                   BitLen(N) - BitLen(D) - prec),
           N0, D0)

\* mpfr(z) for an integer z
mpfr(z0, prec) ==
    Apply(LAMBDA z :
            IF z.s = 0 THEN [s |-> 0, m |-> << >>, e |-> 0]
            ELSE FRound(z.s, z.m, <<1>>, 0, prec),
          z0)

FMul(x0, y0, prec) ==
    Apply2(LAMBDA x, y :
             IF x.s = 0 \/ y.s = 0 THEN [s |-> 0, m |-> << >>, e |-> 0]
             ELSE FRound(x.s * y.s, NMul(x.m, y.m), <<1>>, x.e + y.e, prec),
           x0, y0)

\* x / y for y # 0
FDiv(x0, y0, prec) ==
    Apply2(LAMBDA x, y :
             IF x.s = 0 THEN [s |-> 0, m |-> << >>, e |-> 0]
             ELSE FRound(x.s * y.s, x.m, y.m, x.e - y.e, prec),
           x0, y0)

\* the root r = isqrt(Y) of Y = x * 2^(-2 * e) holds one bit more than the
\* mantissa; the bit dropped and the exactness of r decide the rounding
SqrtRound(r, Y, e, prec) ==
    Apply(LAMBDA m :
            IF NCmp(m, NPow2(prec)) = 0
            THEN [s |-> 1, m |-> NPow2(prec - 1), e |-> e + 2]
            ELSE [s |-> 1, m |-> m, e |-> e + 1],
          IF r[1] % 2 = 1 /\ (NCmp(NMul(r, r), Y) # 0 \/ Limb(NHalf(r), 1) % 2 = 1)
          THEN NAdd(NHalf(r), <<1>>) ELSE NHalf(r))

\* sqrt(x) for x > 0
FSqrt(x0, prec) ==
    Apply(LAMBDA x :
            Apply(LAMBDA m1 :
                    Apply(LAMBDA j :
                            Apply(LAMBDA Y :
                                    Apply(LAMBDA r :
                                            SqrtRound(r, Y, ((x.e - (x.e % 2)) \div 2) - j, prec),
                                          isqrt(ZMake(1, Y)).m),
                                  NMul(m1, NPow2(2 * j))),
                          (2 * prec + 2 - BitLen(m1)) \div 2),
                  IF x.e % 2 = 1 THEN NMulSmall(x.m, 2) ELSE x.m),
          x0)

\* mpz(floor(x))
FFloorZ(x0) ==
    Apply(LAMBDA x :
            IF x.s = 0 THEN ZZero
            ELSE IF x.e >= 0 THEN ZMake(x.s, NMul(x.m, NPow2(x.e)))
            ELSE ZFloorDiv(ZMake(x.s, x.m), ZMake(1, NPow2(-x.e))),
          x0)

\* int(digits * 3.321928094887362 + 256.0); the decimal fraction below agrees
\* with the double-precision product for digits below 640
ExtraBits == 256
PrecBits(digits) == (digits * 3321928) \div 1000000 + ExtraBits

(***************************************************************************)
(* Strings are sequences of one-character strings.                         *)
(***************************************************************************)
SetMin(S) == CHOOSE i \in S : \A j \in S : i <= j

Whitespace == {" ", "\t", "\n", "\r"}
DecDigits  == {"0", "1", "2", "3", "4", "5", "6", "7", "8", "9"}

\* s.strip()
strip(s) ==
    LET keep == {i \in 1..Len(s) : s[i] \notin Whitespace}
    IN  IF keep = {} THEN << >> ELSE SubSeq(s, SetMin(keep), SetMax(keep))

DigitVal(c) == CHOOSE k \in 0..9 : DigitChar(k) = c

\* the number written by the decimal digits ds, most significant first
NFromDec(ds) ==
    LET n  == Len(ds)
        at(j) == IF j >= 1 THEN DigitVal(ds[j]) ELSE 0
    IN  NNorm(Mat([i \in 1..((n + 2) \div 3) |->
                     at(n - 3 * i + 3) + 10 * at(n - 3 * i + 2) + 100 * at(n - 3 * i + 1)]))

ValueError(msg) == [ok |-> FALSE, exc |-> "ValueError", msg |-> msg]
Return(v)       == [ok |-> TRUE, value |-> v]

\* int(s) for a string s: surrounding whitespace, an optional sign, decimal
\* digits with single underscores allowed between digits
int(s) ==
    LET t      == strip(s)
        signed == Len(t) > 0 /\ t[1] \in {"+", "-"}
        body   == IF signed THEN Tail(t) ELSE t
        wellformed ==
            /\ Len(body) > 0
            /\ \A i \in 1..Len(body) :
                  \/ body[i] \in DecDigits
                  \/ /\ body[i] = "_"
                     /\ i > 1 /\ i < Len(body)
                     /\ body[i - 1] \in DecDigits /\ body[i + 1] \in DecDigits
        mag    == NFromDec(SelectSeq(body, LAMBDA c : c \in DecDigits))
    IN  IF ~wellformed THEN ValueError("invalid literal for int()")
        ELSE Return(ZMake(IF signed /\ t[1] = "-" THEN -1 ELSE 1, mag))

\* a Python int below Base^3 as a number of the model
ZToInt(z) == z.s * (Limb(z.m, 1) + Base * (Limb(z.m, 2) + Base * Limb(z.m, 3)))

(***************************************************************************)
(* parse_digit_spec                                                        *)
(***************************************************************************)
\* the suffix T taken in lower case only
MultiplierLowerT(last) ==
    IF last \in {"k", "K"} THEN ZPow10(3)
    ELSE IF last \in {"m", "M"} THEN ZPow10(6)
    ELSE IF last \in {"g", "G"} THEN ZPow10(9)
    ELSE IF last \in {"t"} THEN ZPow10(12)
    ELSE ZInt(1)

Multiplier(last) ==
    IF last \in {"k", "K"} THEN ZPow10(3)
    ELSE IF last \in {"m", "M"} THEN ZPow10(6)
    ELSE IF last \in {"g", "G"} THEN ZPow10(9)
    ELSE IF last \in {"t", "T"} THEN ZPow10(12)
    ELSE ZInt(1)

ParseScientific(s, idx) ==
    LET mantissa_str == SubSeq(s, 1, idx - 1)
        exp_str      == SubSeq(s, idx + 1, Len(s))
        mantissa     == int(mantissa_str)
        exp          == int(exp_str)
    IN  IF Len(mantissa_str) = 0 \/ Len(exp_str) = 0
        THEN ValueError("Invalid scientific notation")
        ELSE IF ~mantissa.ok THEN mantissa
        ELSE IF ~exp.ok THEN exp
        ELSE IF exp.value.s < 0 THEN ValueError("Negative exponent not supported")
        ELSE LET value == ZMul(mantissa.value, ZPow10(ZToInt(exp.value)))
             IN  IF value.s <= 0 THEN ValueError("Digits must be positive")
                 ELSE Return(value)

ParseSuffix(s) ==
    LET last       == s[Len(s)]
        suffixed   == last \in {"k", "K", "m", "M", "g", "G", "t", "T"}
        multiplier == IF suffixed THEN Multiplier(last) ELSE ZInt(1)
        s2         == IF suffixed THEN strip(SubSeq(s, 1, Len(s) - 1)) ELSE s
        base       == int(s2)
    IN  IF suffixed /\ Len(s2) = 0 THEN ValueError("Missing number before suffix")
        ELSE IF ~base.ok THEN base
        ELSE IF base.value.s <= 0 THEN ValueError("Digits must be positive")
        ELSE Return(ZMul(base.value, multiplier))

parse_digit_spec(spec) ==
    LET s  == strip(spec)
        es == {i \in 1..Len(s) : s[i] \in {"e", "E"}}
    IN  IF Len(s) = 0 THEN ValueError("Empty digits specification")
        ELSE IF es # {} THEN ParseScientific(s, SetMin(es))
        ELSE ParseSuffix(s)

(***************************************************************************)
(* get_digits_from_args                                                    *)
(***************************************************************************)
FlagC         == <<"-", "c">>
FlagD         == <<"-", "d">>
FlagCalculate == <<"-", "-", "c", "a", "l", "c", "u", "l", "a", "t", "e">>
FlagDigits    == <<"-", "-", "d", "i", "g", "i", "t", "s">>
DigitFlags    == {FlagCalculate, FlagC, FlagDigits, FlagD}

DefaultDigits == 100000

startswith(s, c) == Len(s) > 0 /\ s[1] = c

\* the while loop over args from position i on (positions count from 1);
\* digit_spec is << >> for None and <<s>> for the string s
RECURSIVE ScanArgs(_, _, _)
ScanArgs(args, i, digit_spec) ==
    IF i > Len(args) THEN [ok |-> TRUE, digit_spec |-> digit_spec]
    ELSE IF args[i] \in DigitFlags
    THEN (IF i + 1 > Len(args)
          THEN ValueError("Flag requires a value")
          ELSE ScanArgs(args, i + 2, <<args[i + 1]>>))
    ELSE IF ~startswith(args[i], "-") /\ Len(digit_spec) = 0
    THEN ScanArgs(args, i + 1, <<args[i]>>)
    ELSE ScanArgs(args, i + 1, digit_spec)

get_digits_from_args(av) ==
    LET args == IF Len(av) = 0 THEN << >> ELSE Tail(av)
        scan == ScanArgs(args, 1, << >>)
    IN  IF ~scan.ok THEN scan
        ELSE IF Len(scan.digit_spec) = 0 THEN Return(ZInt(DefaultDigits))
        ELSE parse_digit_spec(scan.digit_spec[1])

(***************************************************************************)
(* compute_pi_digits: the digit-count check and the number of terms.        *)
(***************************************************************************)
\* the check letting zero through: if digits < 0
InvalidDigitsNegative(d) == d < 0

InvalidDigits(d) == d <= 0

\* one term for every 15 digits: terms = digits // 15 + 1
TermsPer15(d) == d \div 15 + 1

Terms(d) == d \div 14 + 1

(***************************************************************************)
(* State.  An optional value is << >> when absent and <<v>> when present.   *)
(***************************************************************************)
VARIABLES
    variant,      \* "int": pi_chudnovsky.py, "gmpy2": pi_chudnovsky_gmpy2.py
    precision,    \* working precision of the process-wide gmpy2 context
    spec,         \* argument of parse_digit_spec
    parsed,       \* optional outcome of parse_digit_spec
    argv,         \* argument vector of main
    pc,           \* position of main
    got,          \* optional outcome of get_digits_from_args
    stdout,       \* lines printed to the output stream
    stderr,       \* writes to the error stream
    status,       \* optional value returned by main
    started,      \* compute_pi_digits has been called by main
    pi_str,       \* pi_str of main
    digits,       \* argument of compute_pi_digits
    cpc,          \* position of compute_pi_digits
    precision0,   \* precision of the context when compute_pi_digits was called
    stack,        \* active binary_split calls, the innermost last
    ret,          \* optional triple returned by the binary_split call that just ended
    calls,        \* the ranges binary_split was called with, in call order
    leaves,       \* the indices evaluated as size-1 ranges, in evaluation order
    maxdepth,     \* the largest number of active binary_split calls so far
    root,         \* optional triple returned by binary_split(0, terms)
    sqrt_10005,   \* optional S (integer) or sqrt_10005 (mpfr)
    numerator,    \* optional num (integer) or numerator (mpfr)
    denominator,  \* optional den (integer) or denominator (mpfr)
    pi,           \* optional pi, then pi_scaled (mpfr; gmpy2 variant only)
    pi_int,       \* optional pi_scaled (integer-only variant) or pi_int (gmpy2 variant)
    result,       \* the string returned by compute_pi_digits
    raised,       \* "" or the exception raised by compute_pi_digits
    range,        \* <<a, m, b>> of a split at m of the range [a, b)
    whole,        \* optional binary_split(a, b)
    merged,       \* optional merge of binary_split(a, m) and binary_split(m, b)
    folded        \* optional left-to-right fold of the leaves of [a, b)

parseVars   == <<spec, parsed>>
mainVars    == <<argv, pc, got, stdout, stderr, status, started, pi_str>>
splitterVars == <<stack, ret, calls, leaves, maxdepth, root>>
assemblyVars == <<sqrt_10005, numerator, denominator, pi, pi_int>>
computeVars == <<digits, cpc, precision0, splitterVars, assemblyVars, result, raised>>
splitVars   == <<range, whole, merged, folded>>
vars == <<variant, precision, parseVars, mainVars, computeVars, splitVars>>

Variants == {"int", "gmpy2"}

\* precision of the gmpy2 context of a fresh process
DefaultPrecision == 53

ParseIdle == spec = << >> /\ parsed = << >>
MainIdle ==
    /\ argv = << >> /\ pc = "idle" /\ got = << >> /\ stdout = << >>
    /\ stderr = << >> /\ status = << >> /\ started = FALSE /\ pi_str = << >>
ComputeIdle ==
    /\ digits = 0 /\ cpc = "idle" /\ precision0 = DefaultPrecision
    /\ stack = << >> /\ ret = << >> /\ calls = << >> /\ leaves = << >>
    /\ maxdepth = 0 /\ root = << >> /\ sqrt_10005 = << >> /\ numerator = << >>
    /\ denominator = << >> /\ pi = << >> /\ pi_int = << >>
    /\ result = << >> /\ raised = ""
SplitIdle == range = << >> /\ whole = << >> /\ merged = << >> /\ folded = << >>

(***************************************************************************)
(* parse_digit_spec applied to every short string over Alphabet.           *)
(***************************************************************************)
Alphabet   == {"0", "1", "7", "-", "e", "E", "k", "M", "g", "T", " ", "x"}
MaxSpecLen == 4

Strings(n) == UNION {[1..k -> Alphabet] : k \in 0..n}

InitParse ==
    /\ variant \in Variants /\ precision = DefaultPrecision
    /\ spec \in Strings(MaxSpecLen) /\ parsed = << >>
    /\ MainIdle /\ ComputeIdle /\ SplitIdle

Parse ==
    /\ cpc = "idle" /\ pc = "idle" /\ Len(range) = 0
    /\ Len(parsed) = 0
    /\ parsed' = <<parse_digit_spec(spec)>>
    /\ UNCHANGED <<variant, precision, spec, mainVars, computeVars, splitVars>>

NextParse == Parse

SpecParse == InitParse /\ [][NextParse]_vars

(***************************************************************************)
(* compute_pi_digits, one action per statement.  The recursion of          *)
(* binary_split is a stack of frames [a, b, ph, t1]: ph is "call" on entry, *)
(* "left" while binary_split(a, m) runs and "right" while binary_split(m, b) *)
(* runs, t1 holding (P1, Q1, T1) meanwhile.                                 *)
(***************************************************************************)
Frame(a, b) == [a |-> a, b |-> b, ph |-> "call", t1 |-> << >>]

Top == stack[Len(stack)]
Pop == SubSeq(stack, 1, Len(stack) - 1)

\* if digits <= 0: raise ValueError; terms = digits // 14 + 1;
\* binary_split(0, terms) is called
ComputeCall ==
    /\ cpc = "call"
    /\ IF InvalidDigits(digits)
       THEN /\ raised' = "ValueError"
            /\ cpc' = "raised"
            /\ UNCHANGED <<stack, calls, maxdepth>>
       ELSE /\ stack' = <<Frame(0, Terms(digits))>>
            /\ calls' = <<<<0, Terms(digits)>>>>
            /\ maxdepth' = 1
            /\ cpc' = "split"
            /\ UNCHANGED raised
    /\ UNCHANGED <<variant, precision, digits, precision0, ret, leaves, root,
                   assemblyVars, result, parseVars, mainVars, splitVars>>

\* if b - a == 1: return the triple of the term a
SplitLeaf ==
    /\ cpc = "split" /\ Len(stack) > 0
    /\ Top.ph = "call" /\ Top.b - Top.a = 1
    /\ ret' = <<LeafTriple(Top.a)>>
    /\ leaves' = Append(leaves, Top.a)
    /\ stack' = Pop
    /\ UNCHANGED <<variant, precision, digits, cpc, precision0, calls, maxdepth, root,
                   assemblyVars, result, raised, parseVars, mainVars, splitVars>>

\* else: m = (a + b) // 2; binary_split(a, m) is called
SplitLeft ==
    /\ cpc = "split" /\ Len(stack) > 0
    /\ Top.ph = "call" /\ Top.b - Top.a # 1
    /\ stack' = Pop \o <<[Top EXCEPT !.ph = "left"], Frame(Top.a, Mid(Top.a, Top.b))>>
    /\ calls' = Append(calls, <<Top.a, Mid(Top.a, Top.b)>>)
    /\ maxdepth' = Max(maxdepth, Len(stack) + 1)
    /\ UNCHANGED <<variant, precision, digits, cpc, precision0, ret, leaves, root,
                   assemblyVars, result, raised, parseVars, mainVars, splitVars>>

\* P1, Q1, T1 = the triple returned; binary_split(m, b) is called
SplitRight ==
    /\ cpc = "split" /\ Len(stack) > 0
    /\ Top.ph = "left" /\ Len(ret) = 1
    /\ stack' = Pop \o <<[Top EXCEPT !.ph = "right", !.t1 = ret],
                         Frame(Mid(Top.a, Top.b), Top.b)>>
    /\ ret' = << >>
    /\ calls' = Append(calls, <<Mid(Top.a, Top.b), Top.b>>)
    /\ maxdepth' = Max(maxdepth, Len(stack) + 1)
    /\ UNCHANGED <<variant, precision, digits, cpc, precision0, leaves, root,
                   assemblyVars, result, raised, parseVars, mainVars, splitVars>>

\* P2, Q2, T2 = the triple returned; return the merged triple
SplitMerge ==
    /\ cpc = "split" /\ Len(stack) > 0
    /\ Top.ph = "right" /\ Len(ret) = 1
    /\ ret' = <<Merge(Top.t1[1], ret[1])>>
    /\ stack' = Pop
    /\ UNCHANGED <<variant, precision, digits, cpc, precision0, calls, leaves, maxdepth,
                   root, assemblyVars, result, raised, parseVars, mainVars, splitVars>>

\* _P, Q, T = the triple returned by binary_split(0, terms)
SplitReturn ==
    /\ cpc = "split" /\ Len(stack) = 0 /\ Len(ret) = 1
    /\ root' = ret
    /\ ret' = << >>
    /\ cpc' = "terms"
    /\ UNCHANGED <<variant, precision, digits, precision0, stack, calls, leaves, maxdepth,
                   assemblyVars, result, raised, parseVars, mainVars, splitVars>>

(***************************************************************************)
(* The assembly of the integer-only variant.                               *)
(***************************************************************************)
\* margin = 10; p = digits + margin; S = isqrt(10005 * 10 ** (2 * p))
IntSqrt ==
    /\ cpc = "terms" /\ variant = "int"
    /\ sqrt_10005' = <<isqrt(ZMul(ZInt(10005), ZPow10(2 * (digits + Margin))))>>
    /\ cpc' = "sqrt"
    /\ UNCHANGED <<variant, precision, digits, precision0, splitterVars, numerator,
                   denominator, pi, pi_int, result, raised, parseVars, mainVars,
                   splitVars>>

\* num = Q * 426880 * S
IntNum ==
    /\ cpc = "sqrt" /\ variant = "int"
    /\ numerator' = <<ZMul(ZMul(root[1].Q, ZInt(426880)), sqrt_10005[1])>>
    /\ cpc' = "num"
    /\ UNCHANGED <<variant, precision, digits, precision0, splitterVars, sqrt_10005,
                   denominator, pi, pi_int, result, raised, parseVars, mainVars,
                   splitVars>>

\* den = T * 10 ** (p - digits)
IntDen ==
    /\ cpc = "num" /\ variant = "int"
    /\ denominator' = <<ZMul(root[1].T, ZPow10((digits + Margin) - digits))>>
    /\ cpc' = "den"
    /\ UNCHANGED <<variant, precision, digits, precision0, splitterVars, sqrt_10005,
                   numerator, pi, pi_int, result, raised, parseVars, mainVars,
                   splitVars>>

\* pi_scaled = num // den
IntDiv ==
    /\ cpc = "den" /\ variant = "int"
    /\ IF denominator[1].s = 0
       THEN /\ raised' = "ZeroDivisionError"
            /\ cpc' = "raised"
            /\ UNCHANGED pi_int
       ELSE /\ pi_int' = <<ZFloorDiv(numerator[1], denominator[1])>>
            /\ cpc' = "int"
            /\ UNCHANGED raised
    /\ UNCHANGED <<variant, precision, digits, precision0, splitterVars, sqrt_10005,
                   numerator, denominator, pi, result, parseVars, mainVars, splitVars>>

(***************************************************************************)
(* The assembly of the gmpy2 variant.  Every mpfr operation works at the    *)
(* precision of the context at the time it runs.                            *)
(***************************************************************************)
\* prec_bits = int(digits * bits_per_digit + extra_bits);
\* ctx = get_context(); ctx.precision = prec_bits
GmpPrecision ==
    /\ cpc = "terms" /\ variant = "gmpy2"
    /\ precision' = PrecBits(digits)
    /\ cpc' = "prec"
    /\ UNCHANGED <<variant, digits, precision0, splitterVars, assemblyVars, result,
                   raised, parseVars, mainVars, splitVars>>

\* sqrt_10005 = sqrt(mpfr(10005))
GmpSqrt ==
    /\ cpc = "prec" /\ variant = "gmpy2"
    /\ sqrt_10005' = <<FSqrt(mpfr(ZInt(10005), precision), precision)>>
    /\ cpc' = "sqrt"
    /\ UNCHANGED <<variant, precision, digits, precision0, splitterVars, numerator,
                   denominator, pi, pi_int, result, raised, parseVars, mainVars,
                   splitVars>>

\* numerator = mpfr(Q) * 426880 * sqrt_10005
GmpNumerator ==
    /\ cpc = "sqrt" /\ variant = "gmpy2"
    /\ numerator' = <<FMul(FMul(mpfr(root[1].Q, precision),
                                mpfr(ZInt(426880), precision), precision),
                           sqrt_10005[1], precision)>>
    /\ cpc' = "num"
    /\ UNCHANGED <<variant, precision, digits, precision0, splitterVars, sqrt_10005,
                   denominator, pi, pi_int, result, raised, parseVars, mainVars,
                   splitVars>>

\* denominator = mpfr(T)
GmpDenominator ==
    /\ cpc = "num" /\ variant = "gmpy2"
    /\ denominator' = <<mpfr(root[1].T, precision)>>
    /\ cpc' = "den"
    /\ UNCHANGED <<variant, precision, digits, precision0, splitterVars, sqrt_10005,
                   numerator, pi, pi_int, result, raised, parseVars, mainVars,
                   splitVars>>

\* pi = numerator / denominator.  A zero denominator gives an infinity, which
\* mpz(pi_floor) refuses with OverflowError; no statement between has an effect.
GmpPi ==
    /\ cpc = "den" /\ variant = "gmpy2"
    /\ IF denominator[1].s = 0
       THEN /\ raised' = "OverflowError"
            /\ cpc' = "raised"
            /\ UNCHANGED pi
       ELSE /\ pi' = <<FDiv(numerator[1], denominator[1], precision)>>
            /\ cpc' = "pi"
            /\ UNCHANGED raised
    /\ UNCHANGED <<variant, precision, digits, precision0, splitterVars, sqrt_10005,
                   numerator, denominator, pi_int, result, parseVars, mainVars,
                   splitVars>>

\* scale = mpfr(10) ** digits; pi_scaled = pi * scale
GmpScale ==
    /\ cpc = "pi" /\ variant = "gmpy2"
    /\ pi' = <<FMul(pi[1], mpfr(ZPow10(digits), precision), precision)>>
    /\ cpc' = "scaled"
    /\ UNCHANGED <<variant, precision, digits, precision0, splitterVars, sqrt_10005,
                   numerator, denominator, pi_int, result, raised, parseVars, mainVars,
                   splitVars>>

\* pi_floor = floor(pi_scaled); pi_int = mpz(pi_floor)
GmpFloor ==
    /\ cpc = "scaled" /\ variant = "gmpy2"
    /\ pi_int' = <<FFloorZ(pi[1])>>
    /\ cpc' = "int"
    /\ UNCHANGED <<variant, precision, digits, precision0, splitterVars, sqrt_10005,
                   numerator, denominator, pi, result, raised, parseVars, mainVars,
                   splitVars>>

\* s = str(pi_scaled) (pi_str = mpz_digits(pi_int, 10)); pad; split; return
Format ==
    /\ cpc = "int"
    /\ result' = FormatPi(pi_int[1], digits)
    /\ cpc' = "returned"
    /\ UNCHANGED <<variant, precision, digits, precision0, splitterVars, assemblyVars,
                   raised, parseVars, mainVars, splitVars>>

NextSplit ==
    \/ SplitLeaf
    \/ SplitLeft
    \/ SplitRight
    \/ SplitMerge
    \/ SplitReturn

NextAssemble ==
    \/ IntSqrt
    \/ IntNum
    \/ IntDen
    \/ IntDiv
    \/ GmpPrecision
    \/ GmpSqrt
    \/ GmpNumerator
    \/ GmpDenominator
    \/ GmpPi
    \/ GmpScale
    \/ GmpFloor
    \/ Format

NextCompute == ComputeCall \/ NextSplit \/ NextAssemble

(***************************************************************************)
(* compute_pi_digits called with every digit count of                       *)
(* -MaxNonPositive..MaxDigits.                                              *)
(***************************************************************************)
MaxNonPositive == 2
MaxDigits      == 56

ComputeEntry(d) ==
    /\ digits = d
    /\ cpc = "call" /\ precision0 = precision
    /\ stack = << >> /\ ret = << >> /\ calls = << >> /\ leaves = << >>
    /\ maxdepth = 0 /\ root = << >> /\ sqrt_10005 = << >> /\ numerator = << >>
    /\ denominator = << >> /\ pi = << >> /\ pi_int = << >>
    /\ result = << >> /\ raised = ""

InitCompute ==
    /\ variant \in Variants /\ precision = DefaultPrecision
    /\ \E d \in (-MaxNonPositive)..MaxDigits : ComputeEntry(d)
    /\ ParseIdle /\ MainIdle /\ SplitIdle

SpecCompute == InitCompute /\ [][NextCompute]_vars

\* binary_split, once called, runs on until it returns
SpecComputeFair == SpecCompute /\ WF_vars(ComputeCall \/ NextSplit)

(***************************************************************************)
(* main, one action per statement; compute_pi_digits runs by the actions    *)
(* above between MainCompute and MainComputeReturn.                         *)
(***************************************************************************)
DefaultProg ==
    IF variant = "int"
    THEN <<"p", "i", "_", "c", "h", "u", "d", "n", "o", "v", "s", "k", "y", ".", "p", "y">>
    ELSE <<"p", "i", "_", "c", "h", "u", "d", "n", "o", "v", "s", "k", "y", "_",
           "g", "m", "p", "y", "2", ".", "p", "y">>

\* prog = argv[0] if argv else <the file's name>
Prog == IF Len(argv) > 0 THEN argv[1] ELSE DefaultProg

\* the writes to the error stream of the except branch
ErrorReport(prog, msg) ==
    << [line |-> "Error", msg |-> msg],
       [line |-> "Usage examples:"],
       [line |-> "usage", prog |-> prog, args |-> ""],
       [line |-> "usage", prog |-> prog, args |-> "12345"],
       [line |-> "usage", prog |-> prog, args |-> "--calculate 1K"],
       [line |-> "usage", prog |-> prog, args |-> "--digits 10M"],
       [line |-> "usage", prog |-> prog, args |-> "1e6"] >>

\* the value of the return statement of main: return 1 in the except branch,
\* return 0 at the end
\* return 0 on both paths
ExitStatusZero(ok) == 0

ExitStatus(ok) == IF ok THEN 0 ELSE 1

\* the digit counts main's computation is followed for
MaxMainDigits == 20

\* try: digits = get_digits_from_args(argv)
MainGetDigits ==
    /\ pc = "start"
    /\ got' = <<get_digits_from_args(argv)>>
    /\ pc' = IF got'[1].ok THEN "progress" ELSE "except"
    /\ UNCHANGED <<variant, precision, argv, stdout, stderr, status, started, pi_str,
                   parseVars, computeVars, splitVars>>

\* except ValueError as e: the message and the usage examples go to
\* sys.stderr; return 1
MainReportError ==
    /\ pc = "except"
    /\ stderr' = stderr \o ErrorReport(Prog, got[1].msg)
    /\ status' = <<ExitStatus(FALSE)>>
    /\ pc' = "done"
    /\ UNCHANGED <<variant, precision, argv, got, stdout, started, pi_str,
                   parseVars, computeVars, splitVars>>

\* print(f"Calculating ... to {digits} digits ...")
MainPrintProgress ==
    /\ pc = "progress"
    /\ stdout' = Append(stdout, [line |-> "Calculating", digits |-> got[1].value])
    /\ pc' = "compute"
    /\ UNCHANGED <<variant, precision, argv, got, stderr, status, started, pi_str,
                   parseVars, computeVars, splitVars>>

\* start = time.perf_counter(); compute_pi_digits(digits) is called
MainCompute ==
    /\ pc = "compute"
    /\ NCmp(got[1].value.m, NFromInt(MaxMainDigits)) <= 0
    /\ started' = TRUE
    /\ digits' = ZToInt(got[1].value)
    /\ cpc' = "call" /\ precision0' = precision
    /\ stack' = << >> /\ ret' = << >> /\ calls' = << >> /\ leaves' = << >>
    /\ maxdepth' = 0 /\ root' = << >> /\ sqrt_10005' = << >> /\ numerator' = << >>
    /\ denominator' = << >> /\ pi' = << >> /\ pi_int' = << >>
    /\ result' = << >> /\ raised' = ""
    /\ pc' = "computing"
    /\ UNCHANGED <<variant, precision, argv, got, stdout, stderr, status, pi_str,
                   parseVars, splitVars>>

\* pi_str = the string returned; elapsed = time.perf_counter() - start.
\* An exception of compute_pi_digits is not caught: it leaves main.
MainComputeReturn ==
    /\ pc = "computing" /\ cpc \in {"returned", "raised"}
    /\ IF cpc = "returned"
       THEN pi_str' = result /\ pc' = "time"
       ELSE pi_str' = pi_str /\ pc' = "uncaught"
    /\ cpc' = "idle"
    /\ UNCHANGED <<variant, precision, argv, got, stdout, stderr, status, started,
                   digits, precision0, splitterVars, assemblyVars, result, raised,
                   parseVars, splitVars>>

\* print(f"Time: {elapsed} s")
MainPrintTime ==
    /\ pc = "time"
    /\ stdout' = Append(stdout, [line |-> "Time"])
    /\ pc' = "result"
    /\ UNCHANGED <<variant, precision, argv, got, stderr, status, started, pi_str,
                   parseVars, computeVars, splitVars>>

\* print(pi_str)
MainPrintResult ==
    /\ pc = "result"
    /\ stdout' = Append(stdout, [line |-> "pi", text |-> pi_str])
    /\ pc' = "return"
    /\ UNCHANGED <<variant, precision, argv, got, stderr, status, started, pi_str,
                   parseVars, computeVars, splitVars>>

\* return 0
MainReturn ==
    /\ pc = "return"
    /\ status' = <<ExitStatus(TRUE)>>
    /\ pc' = "done"
    /\ UNCHANGED <<variant, precision, argv, got, stdout, stderr, started, pi_str,
                   parseVars, computeVars, splitVars>>

NextMain ==
    \/ MainGetDigits
    \/ MainReportError
    \/ MainPrintProgress
    \/ MainCompute
    \/ NextCompute
    \/ MainComputeReturn
    \/ MainPrintTime
    \/ MainPrintResult
    \/ MainReturn

(***************************************************************************)
(* main called with no argument vector entry at all, or with a program      *)
(* name and up to MaxArgs arguments out of ArgTokens.                       *)
(***************************************************************************)
ProgName  == <<"p", "i">>
ArgTokens == {<<"1", "4">>, <<"x">>, <<"-", "5">>, FlagD}
MaxArgs   == 3

ArgLists == {<< >>} \cup {<<ProgName>> \o a : a \in UNION {[1..k -> ArgTokens] : k \in 0..MaxArgs}}

InitMain ==
    /\ variant \in Variants /\ precision = DefaultPrecision
    /\ argv \in ArgLists
    /\ pc = "start" /\ got = << >> /\ stdout = << >> /\ stderr = << >>
    /\ status = << >> /\ started = FALSE /\ pi_str = << >>
    /\ ParseIdle /\ ComputeIdle /\ SplitIdle

SpecMain == InitMain /\ [][NextMain]_vars

(***************************************************************************)
(* binary_split(a, b) beside the merge of binary_split(a, m) and            *)
(* binary_split(m, b) for every split point m of every range within         *)
(* [0, MaxB), and beside the fold of the leaves from the left.              *)
(***************************************************************************)
MaxB == 7

RECURSIVE FoldLeaves(_, _)
FoldLeaves(a, b) ==
    IF b - a = 1 THEN LeafTriple(a)
    ELSE Apply(LAMBDA l : Merge(l, LeafTriple(b - 1)), FoldLeaves(a, b - 1))

InitSplit ==
    /\ variant \in Variants /\ precision = DefaultPrecision
    /\ range \in {r \in (0..MaxB) \X (0..MaxB) \X (0..MaxB) : r[1] < r[2] /\ r[2] < r[3]}
    /\ whole = << >> /\ merged = << >> /\ folded = << >>
    /\ ParseIdle /\ MainIdle /\ ComputeIdle

\* P, Q, T = binary_split(a, b)
SplitWhole ==
    /\ Len(range) = 3 /\ Len(whole) = 0
    /\ whole' = <<binary_split(range[1], range[3])>>
    /\ UNCHANGED <<variant, precision, range, merged, folded, parseVars, mainVars,
                   computeVars>>

\* the merge step applied to binary_split(a, m) and binary_split(m, b)
SplitAt ==
    /\ Len(range) = 3 /\ Len(merged) = 0
    /\ merged' = <<Merge(binary_split(range[1], range[2]),
                         binary_split(range[2], range[3]))>>
    /\ UNCHANGED <<variant, precision, range, whole, folded, parseVars, mainVars,
                   computeVars>>

\* the merge step applied to the leaves a, a + 1, ..., b - 1 from the left
SplitFold ==
    /\ Len(range) = 3 /\ Len(folded) = 0
    /\ folded' = <<FoldLeaves(range[1], range[3])>>
    /\ UNCHANGED <<variant, precision, range, whole, merged, parseVars, mainVars,
                   computeVars>>

NextSplitter == SplitWhole \/ SplitAt \/ SplitFold

SpecSplit == InitSplit /\ [][NextSplitter]_vars

(***************************************************************************)
(* Properties.                                                             *)
(***************************************************************************)
Finished == cpc \in {"returned", "raised"}

\* C1: for every d <= 0, compute_pi_digits(d) raises ValueError and returns
\* no string, binary_split not having been called; a digit count of 1 or
\* more never raises, and whatever is returned belongs to a d >= 1 and has a
\* fraction that is not empty.
C1_InvalidDigitsRejected ==
    /\ digits <= 0 =>
          /\ cpc \in {"call", "raised"}
          /\ calls = << >> /\ stack = << >> /\ leaves = << >> /\ root = << >>
          /\ result = << >>
          /\ (cpc = "raised" => raised = "ValueError")
    /\ digits >= 1 => (cpc # "raised" /\ raised = "")
    /\ cpc = "returned" => (digits >= 1 /\ Len(result) > 2)

C1_Witness == digits <= 0 /\ cpc = "raised" /\ raised = "ValueError" /\ calls = << >>

\* one character, ".", then d characters
Shaped(s, d) ==
    /\ Len(s) = d + 2
    /\ s[2] = "."
    /\ \A i \in (1..Len(s)) \ {2} : s[i] \in DecDigits

\* scaled integers whose decimal rendering is shorter than, as long as, and
\* longer than d + 1 characters for the d of 1..3
Renderings == {0, 7, 42, 314, 3141, 31415, 271828}

\* C2: for every d >= 1 the string returned by compute_pi_digits(d) is one
\* character, ".", and exactly d characters; the last three statements give
\* that shape whatever the length of the rendering of the scaled integer,
\* padding a shorter one with "0" on the left and cutting a longer one.
C2_ResultShape ==
    /\ cpc = "returned" => Shaped(result, digits)
    /\ \A d \in 1..3 : \A n \in Renderings : Shaped(FormatPi(ZInt(n), d), d)
    /\ FormatPi(ZInt(7), 3) = <<"0", ".", "0", "0", "7">>
    /\ FormatPi(ZInt(271828), 2) = <<"2", ".", "7", "1">>

C2_Witness == cpc = "returned" /\ digits >= 50 /\ Len(result) = digits + 2

\* the decimal expansion of pi to 60 places
PiReference ==
    <<"3", ".", "1", "4", "1", "5", "9", "2", "6", "5", "3", "5", "8", "9", "7", "9",
      "3", "2", "3", "8", "4", "6", "2", "6", "4", "3", "3", "8", "3", "2", "7", "9",
      "5", "0", "2", "8", "8", "4", "1", "9", "7", "1", "6", "9", "3", "9", "9", "3",
      "7", "5", "1", "0", "5", "8", "2", "0", "9", "7", "4", "9", "4", "4">>

\* C3: compute_pi_digits(d) returns the expansion of pi cut after d places,
\* never rounded: "3.1" for d = 1, "3.1415926535" for d = 10, the first 50
\* places of the reference for d = 50.
C3_TruncatedPi ==
    /\ cpc = "returned" => result = SubSeq(PiReference, 1, digits + 2)
    /\ (cpc = "returned" /\ digits = 1) => result = <<"3", ".", "1">>
    /\ (cpc = "returned" /\ digits = 10) =>
          result = <<"3", ".", "1", "4", "1", "5", "9", "2", "6", "5", "3", "5">>

C3_Witness ==
    /\ variant = "int" /\ cpc = "returned" /\ digits = 50
    /\ result[51] = "1" /\ result[52] = "0"

(***************************************************************************)
(* The forms of a digit specification.                                      *)
(***************************************************************************)
IsNumeral(t) == Len(t) > 0 /\ \A i \in 1..Len(t) : t[i] \in DecDigits

NumeralValue(t) == ZMake(1, NFromDec(t))

Exponents == {"e", "E"}
Suffixes  == {"k", "K", "m", "M", "g", "G", "t", "T"}

SuffixScale(c) ==
    IF c \in {"k", "K"} THEN 3
    ELSE IF c \in {"m", "M"} THEN 6
    ELSE IF c \in {"g", "G"} THEN 9
    ELSE 12

\* the outcome for the specification s, all whitespace around it taken off
ParsedAs(s, out) ==
    /\ IsNumeral(s) =>
          IF NumeralValue(s).s = 0 THEN ~out.ok ELSE out = Return(NumeralValue(s))
    /\ (Len(s) >= 2 /\ IsNumeral(SubSeq(s, 1, Len(s) - 1)) /\ s[Len(s)] \in Suffixes) =>
          LET n == NumeralValue(SubSeq(s, 1, Len(s) - 1))
          IN  IF n.s = 0 THEN ~out.ok
              ELSE out = Return(ZMul(n, ZPow10(SuffixScale(s[Len(s)]))))
    /\ \A i \in 2..(Len(s) - 1) :
          (/\ s[i] \in Exponents
           /\ IsNumeral(SubSeq(s, 1, i - 1))
           /\ IsNumeral(SubSeq(s, i + 1, Len(s)))) =>
             LET m == NumeralValue(SubSeq(s, 1, i - 1))
                 x == ZToInt(NumeralValue(SubSeq(s, i + 1, Len(s))))
             IN  IF m.s = 0 THEN ~out.ok ELSE out = Return(ZMul(m, ZPow10(x)))
    \* empty input
    /\ Len(s) = 0 => ~out.ok
    \* a missing mantissa, a missing exponent
    /\ (Len(s) > 0 /\ s[1] \in Exponents) => ~out.ok
    /\ (Len(s) > 0 /\ s[Len(s)] \in Exponents
        /\ \A i \in 1..(Len(s) - 1) : s[i] \notin Exponents) => ~out.ok
    \* a negative exponent
    /\ \A i \in 2..(Len(s) - 2) :
          (/\ s[i] \in Exponents /\ s[i + 1] = "-"
           /\ \A j \in 1..(i - 1) : s[j] \notin Exponents
           /\ IsNumeral(SubSeq(s, i + 2, Len(s)))
           /\ NumeralValue(SubSeq(s, i + 2, Len(s))).s # 0) => ~out.ok
    \* a suffix with no number
    /\ (Len(s) = 1 /\ s[1] \in Suffixes) => ~out.ok
    \* a negative value
    /\ (Len(s) >= 2 /\ s[1] = "-" /\ IsNumeral(Tail(s))) => ~out.ok

\* C4: parse_digit_spec returns a strictly positive integer or raises
\* ValueError; it returns n for a plain integer n, n * 10^3, 10^6, 10^9,
\* 10^12 for n followed by K, M, G, T in either case, m * 10^x for m e x
\* with x >= 0; it raises for empty input, a missing mantissa or exponent, a
\* negative exponent, a suffix with no number and a value of zero or less.
C4_ParseDigitSpec ==
    Len(parsed) = 1 =>
       /\ parsed[1].ok => parsed[1].value.s = 1
       /\ ~parsed[1].ok => parsed[1].exc = "ValueError"
       /\ ParsedAs(strip(spec), parsed[1])
       /\ spec = <<"1", "7">> => parsed[1] = Return(ZInt(17))
       /\ spec = <<"7", "k">> => parsed[1] = Return(ZInt(7000))
       /\ spec = <<"1", "M">> => parsed[1] = Return(ZInt(1000000))
       /\ spec = <<"1", "e", "1">> => parsed[1] = Return(ZInt(10))
       /\ spec \in {<< >>, <<"e", "7">>, <<"1", "e">>, <<"1", "e", "-", "1">>,
                    <<"k">>, <<"-", "7">>, <<"0">>} => ~parsed[1].ok

C4_Witness ==
    /\ spec = <<" ", "7", "T">> /\ Len(parsed) = 1
    /\ parsed[1].ok /\ Len(parsed[1].value.m) = 5

(***************************************************************************)
(* The digit specifications an argument vector gives: the value after each  *)
(* of the four flags, and the first argument that is neither such a flag    *)
(* nor its value.  Given(args, i, bare) holds the positions from i on, bare *)
(* telling that a first bare argument came before i.                        *)
(***************************************************************************)
RECURSIVE Given(_, _, _)
Given(args, i, bare) ==
    IF i > Len(args) THEN {}
    ELSE IF args[i] \in DigitFlags
    THEN (IF i + 1 <= Len(args) THEN {i + 1} ELSE {}) \cup Given(args, i + 2, bare)
    ELSE (IF bare THEN {} ELSE {i}) \cup Given(args, i + 1, TRUE)

Args == IF Len(argv) = 0 THEN << >> ELSE Tail(argv)

BadlyGiven == \E i \in Given(Args, 1, FALSE) : ~parse_digit_spec(Args[i]).ok

\* C5: when the argument vector gives a malformed or non-positive digit
\* specification, as the first bare argument or as the value after
\* --calculate, -c, --digits or -d, get_digits_from_args raises ValueError,
\* main returns a non-zero status and compute_pi_digits is never started.
C5_BadSpecSurfaced ==
    BadlyGiven =>
       /\ Len(got) = 1 => ~got[1].ok
       /\ ~started
       /\ Len(status) = 1 => status[1] # 0

\* C6: main returns 0 exactly when get_digits_from_args returned; after a
\* failure the error stream holds the message and the usage examples, the
\* output stream nothing, compute_pi_digits is not started and the status is
\* not 0; after a success the output stream holds the progress line, then
\* the time, then the result, all three before 0 is returned, and the error
\* stream nothing.
C6_MainProtocol ==
    /\ Len(got) = 0 => (stdout = << >> /\ stderr = << >> /\ status = << >> /\ ~started)
    /\ Len(status) = 1 => (Len(got) = 1 /\ (status[1] = 0 <=> got[1].ok))
    /\ (Len(got) = 1 /\ ~got[1].ok) =>
          /\ stdout = << >> /\ ~started /\ cpc = "idle"
          /\ Len(status) = 0 => stderr = << >>
          /\ Len(status) = 1 =>
                /\ status[1] # 0
                /\ Len(stderr) = 7
                /\ stderr[1].line = "Error" /\ stderr[1].msg = got[1].msg
                /\ stderr[2].line = "Usage examples:"
                /\ \A i \in 3..7 : stderr[i].line = "usage" /\ stderr[i].prog = Prog
    /\ (Len(got) = 1 /\ got[1].ok) =>
          /\ stderr = << >>
          /\ Len(stdout) <= 3
          /\ started => Len(stdout) >= 1
          /\ Len(stdout) >= 1 =>
                (stdout[1].line = "Calculating" /\ stdout[1].digits = got[1].value)
          /\ Len(stdout) >= 2 => (stdout[2].line = "Time" /\ started /\ cpc = "idle")
          /\ Len(stdout) >= 3 =>
                (stdout[3].line = "pi" /\ stdout[3].text = result /\ Len(result) > 0)
          /\ Len(status) = 1 => (status[1] = 0 /\ Len(stdout) = 3)

C6_Witness ==
    /\ pc = "done" /\ status = <<0>> /\ Len(stdout) = 3
    /\ stdout[3].text = SubSeq(PiReference, 1, 16)

\* C7: for every range [a, b) with b - a >= 2 and every m with a < m < b,
\* the merge of binary_split(a, m) and binary_split(m, b) is the triple
\* binary_split(a, b) gives with its own split points, and so is the fold of
\* the leaves of [a, b) from the left.
C7_SplitPointIndependence ==
    /\ (Len(whole) = 1 /\ Len(merged) = 1) => merged = whole
    /\ (Len(whole) = 1 /\ Len(folded) = 1) => folded = whole

C7_Witness ==
    /\ range = <<0, 1, 7>>
    /\ Len(whole) = 1 /\ Len(merged) = 1 /\ Len(folded) = 1
    /\ merged = whole /\ folded = whole

\* C8: the triple binary_split(0, N) returns has Q > 0 and T > 0 although
\* the leaves of odd index have T < 0; the denominator is above zero, no
\* division by zero is met, the scaled integer is not negative and the
\* string returned holds no "-".
C8_RootPositive ==
    /\ \A i \in 1..Len(leaves) :
          LeafTriple(leaves[i]).T.s = (IF leaves[i] % 2 = 1 THEN -1 ELSE 1)
    /\ Len(root) = 1 => (root[1].Q.s = 1 /\ root[1].T.s = 1)
    /\ Len(denominator) = 1 => denominator[1].s = 1
    /\ raised \in {"", "ValueError"}
    /\ Len(pi_int) = 1 => pi_int[1].s >= 0
    /\ \A i \in 1..Len(result) : result[i] # "-"

C8_Witness ==
    /\ variant = "int" /\ cpc = "returned" /\ Len(leaves) = 5
    /\ LeafTriple(3).T.s = -1
    /\ root[1].T.s = 1 /\ denominator[1].s = 1

\* the least k with 2^k >= n
CeilLog2(n) == CHOOSE k \in 0..n : 2^k >= n /\ \A j \in 0..(k - 1) : 2^j < n

SplitterSound ==
    digits >= 1 =>
       /\ Len(calls) >= 1 => calls[1] = <<0, digits \div 14 + 1>>
       /\ \A i \in 1..Len(calls) : 0 <= calls[i][1] /\ calls[i][1] < calls[i][2]
       /\ \A i \in 1..Len(stack) :
             stack[i].b - stack[i].a > 1 =>
                /\ stack[i].a < Mid(stack[i].a, stack[i].b)
                /\ Mid(stack[i].a, stack[i].b) < stack[i].b
       /\ \A i \in 1..Len(leaves) : leaves[i] = i - 1
       /\ Len(leaves) <= digits \div 14 + 1
       /\ Len(root) = 1 => Len(leaves) = digits \div 14 + 1
       /\ Len(stack) <= maxdepth
       /\ maxdepth <= CeilLog2(digits \div 14 + 1) + 1

\* C9: for every d >= 1 the first binary_split call is on [0, d // 14 + 1),
\* every call has 0 <= a < b and every split point a < m < b; the recursion
\* ends, the leaves are 0, 1, ..., d // 14 one time each and in that order,
\* and no more than ceil(log2(N)) + 1 calls are ever active.
C9_SplitterTerminates ==
    /\ []SplitterSound
    /\ <>(digits <= 0 \/ (Len(root) = 1 /\ stack = << >>))

C9_Witness ==
    /\ digits = 56 /\ Len(root) = 1
    /\ leaves = <<0, 1, 2, 3, 4>> /\ maxdepth = 4 /\ Len(calls) = 9

\* C10: when compute_pi_digits has returned or raised, the precision of the
\* arithmetic context is what it was when the call began.
C10_ContextRestored == Finished => precision = precision0

====
